---- MODULE Spec2Model ----
(***************************************************************************)
(* A model of the YoPo core: the Brain scheduling loop (core/brain.py),    *)
(* the Neuron readiness / firing logic (core/neuron.py) and the            *)
(* WorkingMemory message log (core/st_memory.py).                          *)
(*                                                                         *)
(* Seven specifications are given:                                         *)
(*   Spec          the generator Brain.run together with the worker        *)
(*                 threads of its ThreadPoolExecutor;                      *)
(*   SpecLoop      the same on a graph with a synapse into its entry unit; *)
(*   SpecWM        a WorkingMemory receiving a sequence of appends;        *)
(*   SpecUnit      one Neuron, its methods called in any order;            *)
(*   SpecBuffer    one Buffer (core/buffer.py), its methods called in any  *)
(*                 order while time passes;                                *)
(*   SpecAssembly  a Brain being assembled neuron by neuron and synapse    *)
(*                 by synapse;                                             *)
(*   SpecRoute     the default Activation.route called alone.              *)
(***************************************************************************)
EXTENDS Integers, Sequences, FiniteSets, TLC

VARIABLES
    \* ---- WorkingMemory (core/st_memory.py) ----
    wm_messages,                      \* self.messages
    working_memory_size,              \* self.working_memory_size
    max_working_memory_size,          \* self.max_working_memory_size
    working_memory_overflow_strategy, \* self.working_memory_overflow_strategy
    appended,                         \* history: the messages in the order append received them
    \* ---- Brain.run (core/brain.py) ----
    graph,          \* the assembled Brain: neurons, triggers, flags, synapses
    predecessors,   \* Neuron.predecessors of every neuron
    tasks,          \* every future submitted to the executor, by submission number
    futures,        \* the list `futures` of run(): submission numbers
    snapshot,       \* the copy futures[:] the reaping loop iterates over
    idx,            \* position of the reaping loop in snapshot
    pc,             \* where run() is
    cond,           \* the loop variable cond
    now,            \* time elapsed since start_time, in units of clock_frequency
    yielded,        \* what run() has yielded so far
    calls,          \* number of invocations of forward, per neuron
    behaviour,      \* the Step plugged into each neuron
    completed,      \* history: submission numbers in the order their futures completed
    error,          \* the exception that left run(), "none" while there is none
    \* ---- one Neuron taken alone (core/neuron.py) ----
    neuron_predecessors,  \* self.predecessors
    neuron_triggers,      \* self.triggers
    neuron_last,          \* history: the last method called, its argument and outcome
    \* ---- one Buffer taken alone (core/buffer.py) ----
    buffer_messages,      \* self.messages
    message_timestamps,   \* self.message_timestamps
    max_age,              \* self.max_age
    clock_time,           \* what time.time() returns
    buffer_last,          \* history: the last method called and the state it found
    buffer_predecessors_ids, \* history: the predecessors_ids __init__ was given
    \* ---- a Brain under assembly (core/brain.py) ----
    brain_neurons,        \* self.neurons, in insertion order
    brain_synapses,       \* self.synapses
    entry_nodes,          \* self.entry_nodes
    terminal_nodes,       \* self.terminal_nodes
    \* ---- Activation.route called alone (core/activation.py) ----
    routed                \* the outcome of the last call of route

wmVars == <<wm_messages, working_memory_size, max_working_memory_size,
            working_memory_overflow_strategy, appended>>

brainVars == <<graph, predecessors, tasks, futures, snapshot, idx, pc, cond, now,
               yielded, calls, behaviour, completed, error>>

unitVars == <<neuron_predecessors, neuron_triggers, neuron_last>>

bufferVars == <<buffer_messages, message_timestamps, max_age, clock_time, buffer_last,
                buffer_predecessors_ids>>

assemblyVars == <<brain_neurons, brain_synapses, entry_nodes, terminal_nodes>>

routeVars == <<routed>>

vars == <<wmVars, brainVars, unitVars, bufferVars, assemblyVars, routeVars>>

(***************************************************************************)
(* Bounds of the model.                                                    *)
(***************************************************************************)
MaxAppends == 3      \* appends made to a WorkingMemory
MaxCapacity == 2     \* largest max_working_memory_size tried
MaxPriority == 2     \* priorities tried (the code admits 0..10)
MaxTime == 2         \* created_at values tried

(***************************************************************************)
(*                          WorkingMemory                                  *)
(***************************************************************************)

\* The strategy strings tried: the two the code knows and one it does not.
Strategies == {"fifo", "lifo", "random"}

\* A core.message.Message as far as WorkingMemory reads it; id tells apart the
\* objects (the id-th message appended).
WMMessage(id, priority, created_at) ==
    [id |-> id, priority |-> priority, created_at |-> created_at]

\* The key with the sign of the priority lost: key=lambda x: (x.priority, x.created_at).
KeyLessAscending(x, y) ==
    \/ x.priority < y.priority
    \/ /\ x.priority = y.priority
       /\ x.created_at < y.created_at

\* key=lambda x: (-x.priority, x.created_at), compared as Python compares tuples.
KeyLess(x, y) ==
    \/ -x.priority < -y.priority
    \/ /\ x.priority = y.priority
       /\ x.created_at < y.created_at

\* One step of a stable insertion sort: x goes behind every element whose key
\* is not greater than its own.
RECURSIVE InsertSorted(_, _)
InsertSorted(x, s) ==
    IF s = <<>> THEN <<x>>
    ELSE IF KeyLess(x, Head(s)) THEN <<x>> \o s
    ELSE <<Head(s)>> \o InsertSorted(x, Tail(s))

\* list.sort(key=...): a stable sort of the whole list.
RECURSIVE SortMessages(_)
SortMessages(s) ==
    IF s = <<>> THEN <<>>
    ELSE InsertSorted(s[Len(s)], SortMessages(SubSeq(s, 1, Len(s) - 1)))

\* s[-n:] for n >= 0, as Python slices: -0 is 0, so s[-0:] is the whole list.
SliceLast(s, n) ==
    IF n = 0 THEN s
    ELSE IF n >= Len(s) THEN s
    ELSE SubSeq(s, Len(s) - n + 1, Len(s))

\* s[:n] for n >= 0.
SliceFirst(s, n) ==
    IF n >= Len(s) THEN s ELSE SubSeq(s, 1, n)

\* WorkingMemory.overflow on a list msgs whose recorded size is size: the pair
\* of the new list and the new recorded size.
overflow(msgs, size, max, strategy) ==
    IF size > max
    THEN [messages |-> IF strategy = "fifo" THEN SliceLast(msgs, max)
                       ELSE IF strategy = "lifo" THEN SliceFirst(msgs, max)
                       ELSE msgs,
          size |-> max]
    ELSE [messages |-> msgs, size |-> size]

\* WorkingMemory.__init__
WMInit ==
    /\ wm_messages = <<>>
    /\ working_memory_size = 0
    /\ max_working_memory_size \in 0..MaxCapacity
    /\ working_memory_overflow_strategy \in Strategies
    /\ appended = <<>>

\* WorkingMemory.append(message)
append(message) ==
    LET sorted == SortMessages(Append(wm_messages, message))
        res == overflow(sorted, Len(sorted), max_working_memory_size,
                        working_memory_overflow_strategy)
    IN /\ wm_messages' = res.messages
       /\ working_memory_size' = res.size
       /\ appended' = Append(appended, message)
       /\ UNCHANGED <<max_working_memory_size, working_memory_overflow_strategy>>

WMAppend ==
    /\ Len(appended) < MaxAppends
    /\ \E p \in 0..MaxPriority, t \in 1..MaxTime :
          append(WMMessage(Len(appended) + 1, p, t))
    /\ UNCHANGED <<brainVars, unitVars, bufferVars, assemblyVars, routeVars>>


(***************************************************************************)
(*                       Neuron and Brain                                  *)
(***************************************************************************)
MaxTasks == 4        \* futures submitted in one run
Timeout == 3         \* self.timeout, in units of clock_frequency
MaxFailures == 1     \* leading invocations of a step that may raise
MaxTriggers == 2     \* triggers a Neuron is given
MaxClock == 2        \* the last value of time.time()
MaxAge == 1          \* the largest max_age of a Buffer
MaxSynapses == 2     \* synapses added to a Brain under assembly
MaxSuccessors == 2   \* successors of the unit route is called on

\* ThreadPoolExecutor(max_workers=32)
ExecutorMaxWorkers == 32

\* Options the specification names and the code does not read.
max_concurrent_fires == 2
max_retry_attempts == 2

Ids == {"A", "B", "C"}

\* A Python str is modelled as a sequence of atoms, an atom being a neuron id
\* or the comma: "" is << >>, "A" is <<"A">>, "A,B" is <<"A", ",", "B">>.
Str(id) == <<id>>

\* str.split(','): "" splits into [""]
RECURSIVE split(_)
split(s) ==
    IF \A i \in 1..Len(s) : s[i] # ","
    THEN <<s>>
    ELSE LET k == CHOOSE i \in 1..Len(s) :
                     s[i] = "," /\ \A j \in 1..(i - 1) : s[j] # ","
         IN <<SubSeq(s, 1, k - 1)>> \o split(SubSeq(s, k + 1, Len(s)))

\* ','.join(list)
RECURSIVE join(_)
join(l) ==
    IF l = <<>> THEN <<>>
    ELSE IF Len(l) = 1 THEN l[1]
    ELSE l[1] \o <<",">> \o join(Tail(l))

\* The values a predecessor slot and a future's result take.
None == [kind |-> "None"]
Message(emitter, persistant, id) ==
    [kind |-> "Message", emitter_id |-> emitter, persistant |-> persistant, id |-> id]
ResetMessage(emitter, id) == [kind |-> "ResetMessage", emitter_id |-> emitter, id |-> id]
InactiveMessage(emitter, id) == [kind |-> "InactiveMessage", emitter_id |-> emitter, id |-> id]
Exception(exc) == [kind |-> "Exception", exc |-> exc]

\* The key of dict d that string s is, if any: `s in d`.
IsKey(s, d) == Len(s) = 1 /\ s[1] \in DOMAIN d

\* The order in which the model keeps the keys of a dict of ids.
IdOrder == <<"A", "B", "C">>

\* list(self.predecessors.keys()), as strings
RECURSIVE KeyList(_, _)
KeyList(order, S) ==
    IF order = <<>> THEN <<>>
    ELSE (IF Head(order) \in S THEN <<Str(Head(order))>> ELSE <<>>)
         \o KeyList(Tail(order), S)

\* all(self.predecessors[p] is not None for p in predecessor_ids): "yes", "no",
\* or "KeyError" when a lookup fails before a None is met.
RECURSIVE AllPresent(_, _)
AllPresent(ids, preds) ==
    IF ids = <<>> THEN "yes"
    ELSE IF ~IsKey(Head(ids), preds) THEN "KeyError"
    ELSE IF preds[Head(ids)[1]] = None THEN "no"
    ELSE AllPresent(Tail(ids), preds)

\* The loop of ready_to_fire run from the last trigger string to the first.
RECURSIVE LastReady(_, _)
LastReady(trigs, preds) ==
    IF trigs = <<>> THEN [kind |-> "False"]
    ELSE LET r == AllPresent(split(trigs[Len(trigs)]), preds)
         IN IF r = "KeyError" THEN [kind |-> "KeyError"]
            ELSE IF r = "yes" THEN [kind |-> "str", s |-> trigs[Len(trigs)]]
            ELSE LastReady(SubSeq(trigs, 1, Len(trigs) - 1), preds)

\* The loop of ready_to_fire over the trigger strings.
RECURSIVE FirstReady(_, _)
FirstReady(trigs, preds) ==
    IF trigs = <<>> THEN [kind |-> "False"]
    ELSE LET r == AllPresent(split(Head(trigs)), preds)
         IN IF r = "KeyError" THEN [kind |-> "KeyError"]
            ELSE IF r = "yes" THEN [kind |-> "str", s |-> Head(trigs)]
            ELSE FirstReady(Tail(trigs), preds)

\* Neuron.ready_to_fire of a neuron with these predecessors and triggers
ready_to_fire(preds, trigs) ==
    IF DOMAIN preds = {} THEN [kind |-> "False"]
    ELSE FirstReady(IF trigs = <<>> THEN <<join(KeyList(IdOrder, DOMAIN preds))>> ELSE trigs,
                    preds)

\* An update_predecessor that stores whatever it is given, a ResetMessage too.
update_always(preds, message) ==
    [k \in DOMAIN preds \cup {message.emitter_id} |->
        IF k = message.emitter_id THEN message ELSE preds[k]]

\* Neuron.update_predecessor(message): the new predecessors dict
update_predecessor(preds, message) ==
    LET v == IF message.kind = "Message" THEN message ELSE None
        e == message.emitter_id
    IN [k \in DOMAIN preds \cup {e} |-> IF k = e THEN v ELSE preds[k]]


\* ---- the graphs run() is tried on ----

\* A -> B -> C: A the entry point, B triggers on A, C triggers on B and is terminal.
Chain ==
    [neurons |-> <<"A", "B", "C">>,
     predecessors |-> [n \in Ids |-> CASE n = "A" -> {} [] n = "B" -> {"A"} [] n = "C" -> {"B"}],
     triggers |-> [n \in Ids |-> CASE n = "A" -> <<>>
                                   [] n = "B" -> << <<"A">> >>
                                   [] n = "C" -> << <<"B">> >>],
     is_entrypoint |-> {"A"},
     is_terminal |-> {"C"},
     synapses |-> << <<"A", "B">>, <<"B", "C">> >>]

\* A and B are entry points, C triggers on "A,B"; no neuron is terminal.
Join ==
    [neurons |-> <<"A", "B", "C">>,
     predecessors |-> [n \in Ids |-> CASE n = "A" -> {} [] n = "B" -> {} [] n = "C" -> {"A", "B"}],
     triggers |-> [n \in Ids |-> CASE n = "A" -> <<>>
                                   [] n = "B" -> <<>>
                                   [] n = "C" -> << <<"A", ",", "B">> >>],
     is_entrypoint |-> {"A", "B"},
     is_terminal |-> {},
     synapses |-> << <<"A", "C">>, <<"B", "C">> >>]

\* A -> B -> A: A the entry point with no predecessor and no trigger, B triggers
\* on A, and a synapse leads from B back to A. C stands apart.
Loop ==
    [neurons |-> <<"A", "B", "C">>,
     predecessors |-> [n \in Ids |-> CASE n = "A" -> {} [] n = "B" -> {"A"} [] n = "C" -> {}],
     triggers |-> [n \in Ids |-> CASE n = "A" -> <<>>
                                   [] n = "B" -> << <<"A">> >>
                                   [] n = "C" -> <<>>],
     is_entrypoint |-> {"A"},
     is_terminal |-> {},
     synapses |-> << <<"A", "B">>, <<"B", "A">> >>]

Graphs == {Chain, Join}

\* What the forward of a neuron does: the kind of its result, the number of its
\* leading invocations that raise, and whether it never returns.
Kinds == {"Message", "Persistent", "ResetMessage", "InactiveMessage"}
Plain == [kind |-> "Message", failFirst |-> 0, stuck |-> FALSE]
Behaviours == [kind : Kinds, failFirst : 0..MaxFailures, stuck : BOOLEAN]

\* Brain.successors(node_id)
RECURSIVE successors(_, _)
successors(synapses, node_id) ==
    IF synapses = <<>> THEN <<>>
    ELSE (IF Head(synapses)[1] = node_id THEN <<Head(synapses)[2]>> ELSE <<>>)
         \o successors(Tail(synapses), node_id)

\* executor.submit(self.neurons[n].fire, messages, trigger_str)
NewTask(n, trigger_str) ==
    [neuron |-> n, trigger_str |-> trigger_str, st |-> "queued",
     clear |-> {}, inv |-> 0, result |-> None]

InSeq(x, s) == \E i \in 1..Len(s) : s[i] = x

\* list.remove(x): the first occurrence goes
Remove(s, x) ==
    LET k == CHOOSE i \in 1..Len(s) : s[i] = x /\ \A j \in 1..(i - 1) : s[j] # x
    IN SubSeq(s, 1, k - 1) \o SubSeq(s, k + 1, Len(s))

\* Brain.__init__ .. the start of run() on graph G: no future exists yet.
BrainStart(G) ==
    /\ graph = G
    /\ \E odd \in Ids, b \in Behaviours :
          behaviour = [n \in Ids |-> IF n = odd THEN b ELSE Plain]
    /\ predecessors = [n \in Ids |-> [k \in graph.predecessors[n] |-> None]]
    /\ tasks = <<>>
    /\ futures = <<>>
    /\ snapshot = <<>>
    /\ idx = 1
    /\ pc = "seed"
    /\ cond = TRUE
    /\ now = 0
    /\ yielded = <<>>
    /\ calls = [n \in Ids |-> 0]
    /\ completed = <<>>
    /\ error = "none"

BrainInit == \E G \in Graphs : BrainStart(G)

\* run(), lines 62-63: every entry node is submitted with the trigger string "".
RECURSIVE SeedTasks(_, _)
SeedTasks(neurons, entry) ==
    IF neurons = <<>> THEN <<>>
    ELSE (IF Head(neurons) \in entry THEN <<NewTask(Head(neurons), <<>>)>> ELSE <<>>)
         \o SeedTasks(Tail(neurons), entry)

Seed ==
    /\ pc = "seed"
    /\ LET new == SeedTasks(graph.neurons, graph.is_entrypoint)
       IN /\ tasks' = tasks \o new
          /\ futures' = [i \in 1..Len(new) |-> Len(tasks) + i]
          /\ snapshot' = [i \in 1..Len(new) |-> Len(tasks) + i]
    /\ idx' = 1
    /\ pc' = "reap"
    /\ UNCHANGED <<graph, predecessors, cond, now, yielded, calls, behaviour,
                   completed, error>>
    /\ UNCHANGED <<wmVars, unitVars, bufferVars, assemblyVars, routeVars>>


\* ---- the worker threads: Neuron.fire ----

\* The loop of fire over the ids of the trigger string, on a private view of the
\* predecessors: each id that is a key is read (.copy() fails on None) and
\* marked for reset unless its message is persistant.
RECURSIVE WalkTrigger(_, _, _)
WalkTrigger(elts, preds, clear) ==
    IF elts = <<>> THEN [ok |-> TRUE, clear |-> clear]
    ELSE IF ~IsKey(Head(elts), preds) THEN WalkTrigger(Tail(elts), preds, clear)
    ELSE LET k == Head(elts)[1]
         IN IF k \in clear \/ preds[k] = None
            THEN [ok |-> FALSE, clear |-> clear]
            ELSE WalkTrigger(Tail(elts), preds,
                             IF preds[k].persistant THEN clear ELSE clear \cup {k})

\* A fire that resets no slot.
KeepSlots(preds, clear) == preds

ResetSlots(preds, clear) ==
    [k \in DOMAIN preds |-> IF k \in clear THEN None ELSE preds[k]]

Busy == {i \in 1..Len(tasks) : tasks[i].st \in {"copied", "running"}}

\* fire, lines 99-104: a worker picks the task up and reads the slots its trigger
\* names. On a slot that is None the AttributeError ends the task, the slots
\* before it having been reset.
FireCopy(t) ==
    /\ tasks[t].st = "queued"
    /\ Cardinality(Busy) < ExecutorMaxWorkers
    /\ LET n == tasks[t].neuron
           w == WalkTrigger(split(tasks[t].trigger_str), predecessors[n], {})
       IN IF w.ok
          THEN /\ tasks' = [tasks EXCEPT ![t].st = "copied", ![t].clear = w.clear]
               /\ UNCHANGED <<predecessors, completed>>
          ELSE /\ tasks' = [tasks EXCEPT ![t].st = "done",
                                         ![t].result = Exception("AttributeError")]
               /\ predecessors' = [predecessors EXCEPT ![n] = ResetSlots(@, w.clear)]
               /\ completed' = Append(completed, t)
    /\ UNCHANGED <<graph, futures, snapshot, idx, pc, cond, now, yielded, calls,
                   behaviour, error>>
    /\ UNCHANGED <<wmVars, unitVars, bufferVars, assemblyVars, routeVars>>

\* fire, lines 105-108: the slots read are set to None and forward is entered.
FireForward(t) ==
    /\ tasks[t].st = "copied"
    /\ LET n == tasks[t].neuron
       IN /\ predecessors' = [predecessors EXCEPT ![n] = ResetSlots(@, tasks[t].clear)]
          /\ calls' = [calls EXCEPT ![n] = @ + 1]
          /\ tasks' = [tasks EXCEPT ![t].st = "running", ![t].inv = calls[n] + 1]
    /\ UNCHANGED <<graph, futures, snapshot, idx, pc, cond, now, yielded,
                   behaviour, completed, error>>
    /\ UNCHANGED <<wmVars, unitVars, bufferVars, assemblyVars, routeVars>>

\* What the inv-th invocation of the forward of neuron n returns to future t.
forward(n, inv, t) ==
    LET b == behaviour[n]
    IN IF inv <= b.failFirst THEN Exception("StepError")
       ELSE CASE b.kind = "Message" -> Message(n, FALSE, t)
              [] b.kind = "Persistent" -> Message(n, TRUE, t)
              [] b.kind = "ResetMessage" -> ResetMessage(n, t)
              [] b.kind = "InactiveMessage" -> InactiveMessage(n, t)

\* forward returns or raises, and the future is done. A stuck forward never does.
ForwardReturn(t) ==
    /\ tasks[t].st = "running"
    /\ ~behaviour[tasks[t].neuron].stuck
    /\ tasks' = [tasks EXCEPT ![t].st = "done",
                              ![t].result = forward(tasks[t].neuron, tasks[t].inv, t)]
    /\ completed' = Append(completed, t)
    /\ UNCHANGED <<graph, predecessors, futures, snapshot, idx, pc, cond, now,
                   yielded, calls, behaviour, error>>
    /\ UNCHANGED <<wmVars, unitVars, bufferVars, assemblyVars, routeVars>>

\* ---- the scheduling loop of run() ----

\* run(), lines 76-77: update_predecessor of every successor, in order; stops
\* with a KeyError at a successor that is no neuron of the Brain.
RECURSIVE Deliver(_, _, _, _)
Deliver(preds, succs, neurons, result) ==
    IF succs = <<>> THEN [ok |-> TRUE, preds |-> preds]
    ELSE IF ~InSeq(Head(succs), neurons) THEN [ok |-> FALSE, preds |-> preds]
    ELSE Deliver([preds EXCEPT ![Head(succs)] = update_predecessor(@, result)],
                 Tail(succs), neurons, result)

\* Whether the reaped result stops the loop (lines 73-74).
StopsLoop(result) == result.emitter_id \in graph.is_terminal

\* run(), lines 67-78: one iteration of `for future in futures[:]`.
Reap ==
    /\ pc = "reap"
    /\ idx <= Len(snapshot)
    /\ LET t == snapshot[idx]
           result == tasks[t].result
       IN IF tasks[t].st # "done"
          THEN /\ idx' = idx + 1
               /\ UNCHANGED <<predecessors, futures, pc, cond, yielded, error>>
          ELSE IF result.kind = "Exception"
          THEN /\ pc' = "raised"
               /\ error' = result.exc
               /\ UNCHANGED <<predecessors, futures, idx, cond, yielded>>
          ELSE IF result.kind = "InactiveMessage"
          THEN /\ futures' = Remove(futures, t)
               /\ idx' = idx + 1
               /\ UNCHANGED <<predecessors, pc, cond, yielded, error>>
          ELSE LET d == Deliver(predecessors,
                                successors(graph.synapses, result.emitter_id),
                                graph.neurons, result)
               IN /\ yielded' = IF result.kind = "Message"
                                THEN Append(yielded, result) ELSE yielded
                  /\ cond' = IF StopsLoop(result) THEN FALSE ELSE cond
                  /\ predecessors' = d.preds
                  /\ IF d.ok
                     THEN /\ futures' = Remove(futures, t)
                          /\ idx' = idx + 1
                          /\ UNCHANGED <<pc, error>>
                     ELSE /\ pc' = "raised"
                          /\ error' = "KeyError"
                          /\ UNCHANGED <<futures, idx>>
    /\ UNCHANGED <<graph, tasks, snapshot, now, calls, behaviour, completed>>
    /\ UNCHANGED <<wmVars, unitVars, bufferVars, assemblyVars, routeVars>>

\* run(), lines 81-84: the readiness scan over self.neurons; stops with a
\* KeyError when ready_to_fire looks up a predecessor that is no key.
RECURSIVE Scan(_, _)
Scan(neurons, new) ==
    IF neurons = <<>> THEN [ok |-> TRUE, new |-> new]
    ELSE LET n == Head(neurons)
             should_fire == ready_to_fire(predecessors[n], graph.triggers[n])
         IN IF should_fire.kind = "KeyError" THEN [ok |-> FALSE, new |-> new]
            ELSE Scan(Tail(neurons),
                      IF should_fire.kind = "str"
                      THEN Append(new, NewTask(n, should_fire.s)) ELSE new)

\* The test of line 86.
TimedOut(elapsed) == elapsed > Timeout

\* run(), lines 80-88 and the loop test: the sleep of one clock period, the
\* readiness scan, the timeout check, and the next `while cond`.
Tick ==
    /\ pc = "reap"
    /\ idx > Len(snapshot)
    /\ LET sc == Scan(graph.neurons, <<>>)
           n0 == Len(tasks)
           subs == [i \in 1..Len(sc.new) |-> n0 + i]
       IN /\ n0 + Len(sc.new) <= MaxTasks
          /\ now' = now + 1
          /\ tasks' = tasks \o sc.new
          /\ futures' = futures \o subs
          /\ IF ~sc.ok
             THEN /\ pc' = "raised"
                  /\ error' = "KeyError"
                  /\ UNCHANGED <<cond, yielded, snapshot, idx>>
             ELSE /\ error' = error
                  /\ cond' = IF TimedOut(now') THEN FALSE ELSE cond
                  /\ yielded' = IF TimedOut(now')
                                THEN Append(yielded, [kind |-> "Stopped"]) ELSE yielded
                  /\ IF cond'
                     THEN /\ pc' = "reap"
                          /\ snapshot' = futures'
                          /\ idx' = 1
                     ELSE /\ pc' = "done"
                          /\ UNCHANGED <<snapshot, idx>>
    /\ UNCHANGED <<graph, predecessors, calls, behaviour, completed>>
    /\ UNCHANGED <<wmVars, unitVars, bufferVars, assemblyVars, routeVars>>

(***************************************************************************)
(* One Neuron taken alone: its configuration methods, the delivery of a    *)
(* message, the readiness check and fire, called one after the other.      *)
(***************************************************************************)

\* The ids the configuration methods of the neuron are called with; the other
\* members of Ids emit messages without being configured as predecessors.
UnitIds == {"A", "B"}

\* The trigger strings the callers pass: "" and the ids of a set, comma-joined.
TriggerStrs == {join(KeyList(IdOrder, S)) : S \in SUBSET UnitIds}

\* The messages delivered to the neuron (the model gives them all the id 0).
Deliveries ==
    {Message(e, p, 0) : e \in Ids, p \in BOOLEAN}
    \cup {ResetMessage(e, 0) : e \in Ids} \cup {InactiveMessage(e, 0) : e \in Ids}

\* What neuron_last records of a call.
Call(op, arg, ret) ==
    [op |-> op, arg |-> arg, ret |-> ret,
     before |-> [predecessors |-> neuron_predecessors, triggers |-> neuron_triggers]]

\* A Neuron built with the default predecessors and triggers, nothing called yet.
IdleUnit ==
    /\ neuron_predecessors = <<>>
    /\ neuron_triggers = <<>>
    /\ neuron_last = [op |-> "__init__", arg |-> <<>>, ret |-> None,
                      before |-> [predecessors |-> <<>>, triggers |-> <<>>]]

\* self.predecessors[id] = None
SetNone(preds, id) ==
    [k \in DOMAIN preds \cup {id} |-> IF k = id THEN None ELSE preds[k]]

\* Neuron.add_predecessor(predecessor_id)
NeuronAddPredecessor(id) ==
    /\ neuron_predecessors' = SetNone(neuron_predecessors, id)
    /\ neuron_last' = Call("add_predecessor", Str(id), None)
    /\ UNCHANGED neuron_triggers
    /\ UNCHANGED <<wmVars, brainVars, bufferVars, assemblyVars, routeVars>>

\* A remove_predecessor that leaves the triggers as they are.
KeepTriggers(trigs, id) == trigs

\* [trigger for trigger in triggers if predecessor_id not in trigger.split(',')]
RECURSIVE WithoutId(_, _)
WithoutId(trigs, id) ==
    IF trigs = <<>> THEN <<>>
    ELSE (IF InSeq(Str(id), split(Head(trigs))) THEN <<>> ELSE <<Head(trigs)>>)
         \o WithoutId(Tail(trigs), id)

\* Neuron.remove_predecessor(predecessor_id)
NeuronRemovePredecessor(id) ==
    /\ IF id \in DOMAIN neuron_predecessors
       THEN /\ neuron_predecessors' =
                  [k \in DOMAIN neuron_predecessors \ {id} |-> neuron_predecessors[k]]
            /\ neuron_triggers' = WithoutId(neuron_triggers, id)
       ELSE UNCHANGED <<neuron_predecessors, neuron_triggers>>
    /\ neuron_last' = Call("remove_predecessor", Str(id), None)
    /\ UNCHANGED <<wmVars, brainVars, bufferVars, assemblyVars, routeVars>>

\* Neuron.reset_predecessor(predecessor_id)
NeuronResetPredecessor(id) ==
    /\ neuron_predecessors' = SetNone(neuron_predecessors, id)
    /\ neuron_last' = Call("reset_predecessor", Str(id), None)
    /\ UNCHANGED neuron_triggers
    /\ UNCHANGED <<wmVars, brainVars, bufferVars, assemblyVars, routeVars>>

\* all(trigger_id in self.predecessors for trigger_id in trigger_ids)
AllKeys(ids, preds) == \A i \in 1..Len(ids) : IsKey(ids[i], preds)

\* Neuron.add_trigger(trigger_str)
NeuronAddTrigger(trigger_str) ==
    /\ Len(neuron_triggers) < MaxTriggers
    /\ IF AllKeys(split(trigger_str), neuron_predecessors)
       THEN /\ neuron_triggers' = Append(neuron_triggers, trigger_str)
            /\ neuron_last' = Call("add_trigger", trigger_str, None)
       ELSE /\ UNCHANGED neuron_triggers
            /\ neuron_last' = Call("add_trigger", trigger_str, Exception("ValueError"))
    /\ UNCHANGED neuron_predecessors
    /\ UNCHANGED <<wmVars, brainVars, bufferVars, assemblyVars, routeVars>>

\* Neuron.remove_trigger(trigger_str)
NeuronRemoveTrigger(trigger_str) ==
    /\ IF InSeq(trigger_str, neuron_triggers)
       THEN /\ neuron_triggers' = Remove(neuron_triggers, trigger_str)
            /\ neuron_last' = Call("remove_trigger", trigger_str, None)
       ELSE /\ UNCHANGED neuron_triggers
            /\ neuron_last' = Call("remove_trigger", trigger_str, Exception("ValueError"))
    /\ UNCHANGED neuron_predecessors
    /\ UNCHANGED <<wmVars, brainVars, bufferVars, assemblyVars, routeVars>>

\* Neuron.update_predecessor(message), called on its own
NeuronUpdatePredecessor(message) ==
    /\ IF message.kind \in {"Message", "ResetMessage"}
       THEN /\ neuron_predecessors' = update_predecessor(neuron_predecessors, message)
            /\ neuron_last' = Call("update_predecessor", Str(message.emitter_id), None)
       ELSE /\ UNCHANGED neuron_predecessors
            /\ neuron_last' = Call("update_predecessor", Str(message.emitter_id),
                                   Exception("ValueError"))
    /\ UNCHANGED neuron_triggers
    /\ UNCHANGED <<wmVars, brainVars, bufferVars, assemblyVars, routeVars>>

\* Neuron.ready_to_fire(), called on its own
NeuronReadyToFire ==
    /\ LET r == ready_to_fire(neuron_predecessors, neuron_triggers)
       IN neuron_last' = Call("ready_to_fire", <<>>,
                              IF r.kind = "KeyError" THEN Exception("KeyError") ELSE r)
    /\ UNCHANGED <<neuron_predecessors, neuron_triggers>>
    /\ UNCHANGED <<wmVars, brainVars, bufferVars, assemblyVars, routeVars>>

\* Neuron.fire(messages, trigger_str) up to the call of forward, no other thread
\* touching the neuron meanwhile.
NeuronFire(trigger_str) ==
    /\ LET w == WalkTrigger(split(trigger_str), neuron_predecessors, {})
       IN /\ neuron_predecessors' = ResetSlots(neuron_predecessors, w.clear)
          /\ neuron_last' = Call("fire", trigger_str,
                                 IF w.ok THEN [kind |-> "forward"]
                                 ELSE Exception("AttributeError"))
    /\ UNCHANGED neuron_triggers
    /\ UNCHANGED <<wmVars, brainVars, bufferVars, assemblyVars, routeVars>>


(***************************************************************************)
(* One Buffer taken alone (core/buffer.py), its methods called one after   *)
(* the other while the wall clock advances.                                *)
(***************************************************************************)

\* MessageType (core/message.py)
EMPTY == "empty"
PERSISTENT == "persistent"
PAYLOAD == "payload"
MessageType == {EMPTY, PERSISTENT, PAYLOAD}

\* The ids a Buffer is built on; the other members of Ids are unknown senders.
BufferIds == {"A", "B"}

\* core.message.Message: sender_id, receiver_id and reply are "None" when not given.
CoreMessage(type, sender_id, receiver_id, reply, created_at) ==
    [type |-> type, sender_id |-> sender_id, receiver_id |-> receiver_id,
     reply |-> reply, created_at |-> created_at]

\* Message(type=MessageType.EMPTY) built at time t
EmptyMessage(t) == CoreMessage(EMPTY, "None", "None", "None", t)

\* The messages a caller hands to receive at time t.
Received(t) ==
    {CoreMessage(ty, s, "None", r, t) : ty \in MessageType, s \in Ids \cup {"None"},
                                        r \in {"None", "Reply"}}

\* The values of max_age: None or a number of time units.
MaxAges == {None} \cup {[kind |-> "float", v |-> a] : a \in 0..MaxAge}

\* What buffer_last records of a call.
BufferCall(op, arg) ==
    [op |-> op, arg |-> arg, at |-> clock_time, prev |-> buffer_last.op,
     before |-> [messages |-> buffer_messages, timestamps |-> message_timestamps]]

\* Buffer.__init__(predecessors_ids, max_age) at time t
BufferNew(predecessors_ids, age, t) ==
    /\ buffer_messages = [p \in predecessors_ids |-> EmptyMessage(t)]
    /\ message_timestamps = [p \in predecessors_ids |-> t]
    /\ max_age = age
    /\ clock_time = t
    /\ buffer_predecessors_ids = predecessors_ids
    /\ buffer_last = [op |-> "__init__", arg |-> "None", at |-> t, prev |-> "none",
                      before |-> [messages |-> <<>>, timestamps |-> <<>>]]

IdleBuffer == BufferNew({}, None, 0)

BufferInit == \E ids \in SUBSET BufferIds, age \in MaxAges : BufferNew(ids, age, 0)

\* A receive that stores the message of any sender, declared or not.
BufferReceiveAny(message) ==
    /\ buffer_messages' =
          [p \in DOMAIN buffer_messages \cup {message.sender_id} |->
              IF p = message.sender_id THEN message ELSE buffer_messages[p]]
    /\ message_timestamps' =
          [p \in DOMAIN message_timestamps \cup {message.sender_id} |->
              IF p = message.sender_id THEN clock_time ELSE message_timestamps[p]]
    /\ buffer_last' = BufferCall("receive", message.sender_id)
    /\ UNCHANGED <<max_age, clock_time, buffer_predecessors_ids>>
    /\ UNCHANGED <<wmVars, brainVars, unitVars, assemblyVars, routeVars>>

\* Buffer.receive(message)
BufferReceive(message) ==
    /\ IF message.sender_id \in DOMAIN buffer_messages
       THEN /\ buffer_messages' = [buffer_messages EXCEPT ![message.sender_id] = message]
            /\ message_timestamps' =
                  [message_timestamps EXCEPT ![message.sender_id] = clock_time]
       ELSE UNCHANGED <<buffer_messages, message_timestamps>>
    /\ buffer_last' = BufferCall("receive", message.sender_id)
    /\ UNCHANGED <<max_age, clock_time, buffer_predecessors_ids>>
    /\ UNCHANGED <<wmVars, brainVars, unitVars, assemblyVars, routeVars>>

\* The message received at `timestamp` is stale at current_time (line 58).
StaleOrEqual(current_time, timestamp, age) == current_time - timestamp >= age
Stale(current_time, timestamp, age) == current_time - timestamp > age

\* Buffer.cleanup_stale_messages()
BufferCleanup ==
    /\ IF max_age.kind = "None"
       THEN UNCHANGED buffer_messages
       ELSE buffer_messages' =
               [p \in DOMAIN buffer_messages |->
                   IF Stale(clock_time, message_timestamps[p], max_age.v)
                   THEN EmptyMessage(clock_time)
                   ELSE buffer_messages[p]]
    /\ buffer_last' = BufferCall("cleanup_stale_messages", "None")
    /\ UNCHANGED <<message_timestamps, max_age, clock_time, buffer_predecessors_ids>>
    /\ UNCHANGED <<wmVars, brainVars, unitVars, assemblyVars, routeVars>>

\* Buffer.clear()
BufferClear ==
    /\ buffer_messages' =
          [p \in DOMAIN buffer_messages |->
              IF buffer_messages[p].type # PERSISTENT
              THEN EmptyMessage(clock_time)
              ELSE buffer_messages[p]]
    /\ buffer_last' = BufferCall("clear", "None")
    /\ UNCHANGED <<message_timestamps, max_age, clock_time, buffer_predecessors_ids>>
    /\ UNCHANGED <<wmVars, brainVars, unitVars, assemblyVars, routeVars>>

\* Time passes between two calls.
BufferTick ==
    /\ clock_time < MaxClock
    /\ clock_time' = clock_time + 1
    /\ UNCHANGED <<buffer_messages, message_timestamps, max_age, buffer_last,
                   buffer_predecessors_ids>>
    /\ UNCHANGED <<wmVars, brainVars, unitVars, assemblyVars, routeVars>>


(***************************************************************************)
(* A Brain under assembly (core/brain.py): add_neuron, add_synapse,        *)
(* remove_neuron and remove_synapse, each followed by build().             *)
(***************************************************************************)

\* A Neuron as add_neuron receives it: its id and its two flags.
NeuronOf(id, is_entrypoint, is_terminal) ==
    [id |-> id, is_entrypoint |-> is_entrypoint, is_terminal |-> is_terminal]

\* self.neurons.keys()
RECURSIVE NeuronIds(_)
NeuronIds(neurons) ==
    IF neurons = <<>> THEN <<>> ELSE <<Head(neurons).id>> \o NeuronIds(Tail(neurons))

\* self.neurons[neuron.id] = neuron: a known key keeps its place, a new one goes last.
SetNeuron(neurons, neuron) ==
    IF InSeq(neuron.id, NeuronIds(neurons))
    THEN [i \in 1..Len(neurons) |-> IF neurons[i].id = neuron.id THEN neuron ELSE neurons[i]]
    ELSE Append(neurons, neuron)

\* build(), lines 114-115: the ids of the neurons with the flag set, in dict order.
RECURSIVE EntryNodes(_)
EntryNodes(neurons) ==
    IF neurons = <<>> THEN <<>>
    ELSE (IF Head(neurons).is_entrypoint THEN <<Head(neurons).id>> ELSE <<>>)
         \o EntryNodes(Tail(neurons))

RECURSIVE TerminalNodes(_)
TerminalNodes(neurons) ==
    IF neurons = <<>> THEN <<>>
    ELSE (IF Head(neurons).is_terminal THEN <<Head(neurons).id>> ELSE <<>>)
         \o TerminalNodes(Tail(neurons))

\* Brain.build(): the part of it that sets fields of the Brain
build(neurons) ==
    /\ entry_nodes' = EntryNodes(neurons)
    /\ terminal_nodes' = TerminalNodes(neurons)

\* Brain.__init__: no neuron, no synapse
IdleAssembly ==
    /\ brain_neurons = <<>>
    /\ brain_synapses = <<>>
    /\ entry_nodes = <<>>
    /\ terminal_nodes = <<>>

\* Brain.add_neuron(neuron)
AddNeuron(neuron) ==
    /\ brain_neurons' = SetNeuron(brain_neurons, neuron)
    /\ build(brain_neurons')
    /\ UNCHANGED brain_synapses
    /\ UNCHANGED <<wmVars, brainVars, unitVars, bufferVars, routeVars>>

\* Brain.add_synapse(synapse), also each synapse of from_config
AddSynapse(sender_neuron_id, receiver_neuron_id) ==
    /\ Len(brain_synapses) < MaxSynapses
    /\ brain_synapses' = Append(brain_synapses, <<sender_neuron_id, receiver_neuron_id>>)
    /\ build(brain_neurons)
    /\ UNCHANGED brain_neurons
    /\ UNCHANGED <<wmVars, brainVars, unitVars, bufferVars, routeVars>>

\* [x for x in l if keep(x)]
RECURSIVE SynapsesWithout(_, _)
SynapsesWithout(syns, id) ==
    IF syns = <<>> THEN <<>>
    ELSE (IF id = Head(syns)[1] \/ id = Head(syns)[2] THEN <<>> ELSE <<Head(syns)>>)
         \o SynapsesWithout(Tail(syns), id)

RECURSIVE NeuronsWithout(_, _)
NeuronsWithout(neurons, id) ==
    IF neurons = <<>> THEN <<>>
    ELSE (IF Head(neurons).id = id THEN <<>> ELSE <<Head(neurons)>>)
         \o NeuronsWithout(Tail(neurons), id)

RECURSIVE SynapsesOtherThan(_, _)
SynapsesOtherThan(syns, synapse) ==
    IF syns = <<>> THEN <<>>
    ELSE (IF Head(syns) = synapse THEN <<>> ELSE <<Head(syns)>>)
         \o SynapsesOtherThan(Tail(syns), synapse)

\* Brain.remove_neuron(id)
RemoveNeuron(id) ==
    /\ brain_synapses' = SynapsesWithout(brain_synapses, id)
    /\ brain_neurons' = NeuronsWithout(brain_neurons, id)
    /\ build(brain_neurons')
    /\ UNCHANGED <<wmVars, brainVars, unitVars, bufferVars, routeVars>>

\* Brain.remove_synapse(sender_neuron_id, receiver_neuron_id)
RemoveSynapse(sender_neuron_id, receiver_neuron_id) ==
    /\ brain_synapses' =
          SynapsesOtherThan(brain_synapses, <<sender_neuron_id, receiver_neuron_id>>)
    /\ build(brain_neurons)
    /\ UNCHANGED brain_neurons
    /\ UNCHANGED <<wmVars, brainVars, unitVars, bufferVars, routeVars>>


(***************************************************************************)
(* Activation.route called alone (core/activation.py), through a subclass  *)
(* that keeps the default body.                                            *)
(***************************************************************************)

\* The lists of at most n members of S.
ListsUpTo(S, n) == UNION {[1..k -> S] : k \in 0..n}

\* The objects route is handed as `neuron`: a core.neuron.Neuron, which has
\* neither sender_id nor successors, or a unit that has both.
RouteNeurons ==
    {[kind |-> "Neuron", id |-> n] : n \in Ids}
    \cup {[kind |-> "unit", sender_id |-> s, successors |-> l] :
             s \in Ids \cup {"None"}, l \in ListsUpTo(Ids, MaxSuccessors)}

\* The replies route is handed: a Reply or None.
Replies == {"None", "Reply"}

\* Activation.route(reply, neuron) called at time t
route(reply, neuron, t) ==
    IF neuron.kind = "Neuron" THEN Exception("AttributeError")
    ELSE [kind |-> "list",
          l |-> [i \in 1..Len(neuron.successors) |->
                    CoreMessage(EMPTY, neuron.sender_id, neuron.successors[i], reply, t)]]

\* route has not been called.
IdleRoute == routed = None

Route(reply, neuron, t) ==
    /\ routed' = route(reply, neuron, t)
    /\ UNCHANGED <<wmVars, brainVars, unitVars, bufferVars, assemblyVars>>

(***************************************************************************)
(* The specifications.                                                     *)
(***************************************************************************)

\* A WorkingMemory nothing is appended to.
IdleWM ==
    /\ wm_messages = <<>> /\ working_memory_size = 0
    /\ max_working_memory_size = 0 /\ working_memory_overflow_strategy = "fifo"
    /\ appended = <<>>

Init == BrainInit /\ IdleWM /\ IdleUnit /\ IdleBuffer /\ IdleAssembly /\ IdleRoute

Next ==
    \/ Seed
    \/ Reap
    \/ Tick
    \/ \E t \in 1..Len(tasks) : FireCopy(t)
    \/ \E t \in 1..Len(tasks) : FireForward(t)
    \/ \E t \in 1..Len(tasks) : ForwardReturn(t)

Spec == Init /\ [][Next]_vars

\* Brain.run on the graph whose entry point receives a synapse.
InitLoop == BrainStart(Loop) /\ IdleWM /\ IdleUnit /\ IdleBuffer /\ IdleAssembly /\ IdleRoute

SpecLoop == InitLoop /\ [][Next]_vars

\* A Brain that never runs stands beside the WorkingMemory under test.
IdleBrain ==
    /\ graph = Chain
    /\ behaviour = [n \in Ids |-> Plain]
    /\ predecessors = [n \in Ids |-> [k \in graph.predecessors[n] |-> None]]
    /\ tasks = <<>> /\ futures = <<>> /\ snapshot = <<>> /\ idx = 1
    /\ pc = "idle" /\ cond = TRUE /\ now = 0 /\ yielded = <<>>
    /\ calls = [n \in Ids |-> 0] /\ completed = <<>> /\ error = "none"

InitWM == WMInit /\ IdleBrain /\ IdleUnit /\ IdleBuffer /\ IdleAssembly /\ IdleRoute

NextWM == WMAppend

SpecWM == InitWM /\ [][NextWM]_vars

\* One Neuron, its methods called in any order.
InitUnit == IdleUnit /\ IdleWM /\ IdleBrain /\ IdleBuffer /\ IdleAssembly /\ IdleRoute

NextUnit ==
    \/ \E id \in UnitIds : NeuronAddPredecessor(id)
    \/ \E id \in UnitIds : NeuronRemovePredecessor(id)
    \/ \E id \in UnitIds : NeuronResetPredecessor(id)
    \/ \E trigger_str \in TriggerStrs : NeuronAddTrigger(trigger_str)
    \/ \E trigger_str \in TriggerStrs : NeuronRemoveTrigger(trigger_str)
    \/ \E message \in Deliveries : NeuronUpdatePredecessor(message)
    \/ NeuronReadyToFire
    \/ \E trigger_str \in TriggerStrs : NeuronFire(trigger_str)

SpecUnit == InitUnit /\ [][NextUnit]_vars

\* One Buffer, its methods called in any order while time passes.
InitBuffer == BufferInit /\ IdleWM /\ IdleBrain /\ IdleUnit /\ IdleAssembly /\ IdleRoute

NextBuffer ==
    \/ \E message \in Received(clock_time) : BufferReceive(message)
    \/ BufferCleanup
    \/ BufferClear
    \/ BufferTick

SpecBuffer == InitBuffer /\ [][NextBuffer]_vars

\* A Brain being assembled, its methods called in any order.
InitAssembly == IdleAssembly /\ IdleWM /\ IdleBrain /\ IdleUnit /\ IdleBuffer /\ IdleRoute

NextAssembly ==
    \/ \E id \in Ids, e \in BOOLEAN, t \in BOOLEAN : AddNeuron(NeuronOf(id, e, t))
    \/ \E s \in Ids, r \in Ids : AddSynapse(s, r)
    \/ \E id \in Ids : RemoveNeuron(id)
    \/ \E s \in Ids, r \in Ids : RemoveSynapse(s, r)

SpecAssembly == InitAssembly /\ [][NextAssembly]_vars

\* The default route called on any reply and unit at any time.
InitRoute == IdleRoute /\ IdleWM /\ IdleBrain /\ IdleUnit /\ IdleBuffer /\ IdleAssembly

NextRoute ==
    \E reply \in Replies, neuron \in RouteNeurons, t \in 0..MaxClock : Route(reply, neuron, t)

SpecRoute == InitRoute /\ [][NextRoute]_vars


(***************************************************************************)
(*                             Claims                                      *)
(***************************************************************************)

\* The futures of neuron n that are submitted and not yet reaped.
InFlight(n) == {i \in 1..Len(tasks) : InSeq(i, futures) /\ tasks[i].neuron = n}

Yielded(r) == InSeq(r, yielded)

\* C1: during Brain.run no unit has two dispatches in flight at once: a unit
\* that is dispatched and not yet reaped is not dispatched again by the
\* readiness scan.
C1_NoDoubleDispatch == \A n \in Ids : Cardinality(InFlight(n)) <= 1

\* C2: the number of dispatches submitted and not yet reaped never exceeds
\* max_concurrent_fires, while seeding and in every tick.
C2_CapRespected == Len(futures) <= max_concurrent_fires

\* C3: when the step of a dispatched unit raises, Brain.run does not abort and
\* the failure is not re-raised to the consumer of run().
C3_StepFailureContained == ~(pc = "raised" /\ error = "StepError")

\* C4: with a unit whose step never returns, at the moment run() ends by
\* timeout every reply of a dispatch that has completed by then has been
\* yielded, and no reply of the stuck unit has.
C4_TimeoutYieldsCompleted ==
    [][(/\ pc = "reap"
        /\ pc' = "done"
        /\ TimedOut(now')
        /\ \E i \in 1..Len(tasks) :
              tasks[i].st = "running" /\ behaviour[tasks[i].neuron].stuck)
       => /\ \A i \in 1..Len(tasks) :
                (tasks[i].st = "done" /\ tasks[i].result.kind = "Message")
                => InSeq(tasks[i].result, yielded')
          /\ \A j \in 1..Len(yielded') :
                yielded'[j].kind = "Message" => ~behaviour[yielded'[j].emitter_id].stuck]_vars

\* C5: whenever a scheduling tick ends with no dispatch in flight and no unit
\* ready, the loop exits at that tick: run() never starts another iteration in
\* such a state.
C5_QuiescenceExits ==
    ~(/\ pc = "reap"
      /\ now > 0
      /\ idx = 1
      /\ futures = <<>>
      /\ \A n \in Ids :
            ready_to_fire(predecessors[n], graph.triggers[n]).kind = "False")

\* C6: on the chain A -> B -> C with steps that return a plain Message, a run
\* that ends before the timeout has yielded exactly the replies of A, B and C,
\* in this order, each unit having been dispatched exactly once.
C6_ChainYieldsABC ==
    (/\ graph = Chain
     /\ \A n \in Ids : behaviour[n] = Plain
     /\ pc \in {"done", "raised"}
     /\ ~TimedOut(now))
    => /\ Len(yielded) = 3
       /\ yielded[1].emitter_id = "A"
       /\ yielded[2].emitter_id = "B"
       /\ yielded[3].emitter_id = "C"
       /\ Len(tasks) = 3

\* C7: a dispatch retries a failing step: it is reported failed exactly when
\* max_retry_attempts invocations in a row, counted from its first, raise; a
\* step that succeeds within max_retry_attempts invocations makes the dispatch
\* complete with its reply.
C7_RetryUntilSuccess ==
    \A i \in 1..Len(tasks) :
       (tasks[i].st = "done" /\ tasks[i].inv > 0)
       => (tasks[i].result = Exception("StepError")
           <=> tasks[i].inv + max_retry_attempts - 1
                  <= behaviour[tasks[i].neuron].failFirst)

\* (priority desc, created_at asc): x may stand before y.
InOrder(x, y) ==
    \/ x.priority > y.priority
    \/ x.priority = y.priority /\ x.created_at <= y.created_at

\* C8: after every WorkingMemory.append the stored sequence is sorted by
\* priority descending and, among equal priorities, by created_at ascending,
\* for both overflow strategies and through truncation.
C8_SortedAfterAppend ==
    \A i \in 1..Len(wm_messages) : \A j \in i..Len(wm_messages) :
       InOrder(wm_messages[i], wm_messages[j])

\* C8 witness: an append that overflowed and truncated a list whose sort had
\* moved a later, higher-priority message to the front.
C8_Witness ==
    /\ working_memory_overflow_strategy \in {"fifo", "lifo"}
    /\ Len(appended) > max_working_memory_size
    /\ Len(wm_messages) = 2
    /\ Len(wm_messages) < Len(appended)
    /\ wm_messages[1].priority > wm_messages[2].priority
    /\ wm_messages[1].id > wm_messages[2].id

\* C9: after every WorkingMemory.append the number of stored messages is at
\* most max_working_memory_size, for every capacity >= 0 and every strategy.
C9_CapacityRespected == Len(wm_messages) <= max_working_memory_size

StoredIds == {wm_messages[i].id : i \in 1..Len(wm_messages)}

\* C10: after N+1 appends to a WorkingMemory of capacity N, 'fifo' keeps
\* exactly the N most recently appended messages and 'lifo' exactly the N
\* earliest appended ones. Stated for N >= 1, where the slice s[-N:] keeps N.
C10_OverflowKeepsByInsertion ==
    (max_working_memory_size >= 1 /\ Len(appended) = max_working_memory_size + 1)
    => /\ working_memory_overflow_strategy = "fifo"
          => StoredIds = 2..(max_working_memory_size + 1)
       /\ working_memory_overflow_strategy = "lifo"
          => StoredIds = 1..max_working_memory_size


\* The position of x in the sequence s (0 when it is not there).
Pos(x, s) == IF InSeq(x, s) THEN CHOOSE i \in 1..Len(s) : s[i] = x ELSE 0

\* The futures whose result run() has taken and processed.
Reaped == {i \in 1..Len(tasks) : tasks[i].st = "done" /\ ~InSeq(i, futures)}

\* C14: replies are yielded in completion order: when the dispatch of X
\* completes before the dispatch of Y, X's reply is yielded before Y's.
C14_YieldInCompletionOrder ==
    \A a \in 1..Len(completed) : \A b \in (a + 1)..Len(completed) :
       LET x == tasks[completed[a]].result
           y == tasks[completed[b]].result
       IN (x.kind = "Message" /\ y.kind = "Message" /\ Yielded(x) /\ Yielded(y))
          => Pos(x, yielded) < Pos(y, yielded)

\* C15: every message run() delivers into the inbox of a downstream unit is
\* also appended to the WorkingMemory of the Brain.
C15_DeliveredAreLogged ==
    \A i \in Reaped :
       (/\ tasks[i].result.kind = "Message"
        /\ successors(graph.synapses, tasks[i].neuron) # <<>>)
       => \E k \in 1..Len(appended) : appended[k].id = i

\* No dispatch in flight and no unit ready.
Quiescent ==
    /\ futures = <<>>
    /\ \A n \in Ids :
          ready_to_fire(predecessors[n], graph.triggers[n]).kind = "False"

\* C18: is_terminal never stops the loop: run() leaves its loop only by
\* timeout or at quiescence, so a unit still in flight or ready when a
\* terminal unit has been reaped is still served.
C18_TerminalDoesNotStop ==
    pc = "done" => (TimedOut(now) \/ Quiescent)

\* C19: when the loop of run() has exited, no dispatch is left in flight: every
\* future submitted during the run has completed and has been reaped.
C19_DrainedAtExit ==
    pc = "done" => /\ \A i \in 1..Len(tasks) : tasks[i].st = "done"
                   /\ futures = <<>>


\* ---- one Neuron ----

\* The neuron has exactly two predecessors and one trigger, which names both.
TwoBoth(preds, trigs) ==
    /\ Cardinality(DOMAIN preds) = 2
    /\ Len(trigs) = 1
    /\ Len(trigs[1]) = 3
    /\ trigs[1][2] = ","
    /\ {trigs[1][1], trigs[1][3]} = DOMAIN preds

\* C11: a unit with two predecessors and one trigger requiring both is not
\* ready while one of the two slots is empty and returns that trigger once
\* both are filled; after it fires with that trigger, each slot that held a
\* non-persistent message is empty and, one at least having been so, the unit
\* is not ready.
C11_BothRequired ==
    LET P == neuron_predecessors
        T == neuron_triggers
        B == neuron_last.before
    IN /\ TwoBoth(P, T) =>
             IF \E k \in DOMAIN P : P[k] = None
             THEN ready_to_fire(P, T) = [kind |-> "False"]
             ELSE ready_to_fire(P, T) = [kind |-> "str", s |-> T[1]]
       /\ (/\ neuron_last.op = "fire"
           /\ TwoBoth(B.predecessors, B.triggers)
           /\ neuron_last.arg = B.triggers[1]
           /\ \A k \in DOMAIN B.predecessors : B.predecessors[k] # None)
          => /\ neuron_last.ret = [kind |-> "forward"]
             /\ \A k \in DOMAIN B.predecessors :
                   IF B.predecessors[k].persistant
                   THEN P[k] = B.predecessors[k]
                   ELSE P[k] = None
             /\ (\E k \in DOMAIN B.predecessors : ~B.predecessors[k].persistant)
                => ready_to_fire(P, T) = [kind |-> "False"]

\* The unit has just fired on both slots, each holding a non-persistent message.
C11_Witness ==
    /\ neuron_last.op = "fire"
    /\ TwoBoth(neuron_last.before.predecessors, neuron_last.before.triggers)
    /\ neuron_last.arg = neuron_last.before.triggers[1]
    /\ \A k \in DOMAIN neuron_last.before.predecessors :
          /\ neuron_last.before.predecessors[k] # None
          /\ ~neuron_last.before.predecessors[k].persistant
          /\ neuron_predecessors[k] = None

\* ---- one Buffer ----

\* C12: clear leaves every slot holding a PERSISTENT message unchanged and sets
\* every other slot to EMPTY, and a clear that follows a clear leaves the state
\* of the buffer unchanged.
C12_ClearIdempotent ==
    buffer_last.op = "clear" =>
       /\ \A p \in DOMAIN buffer_messages :
             IF buffer_last.before.messages[p].type = PERSISTENT
             THEN buffer_messages[p] = buffer_last.before.messages[p]
             ELSE buffer_messages[p].type = EMPTY
       /\ buffer_last.prev = "clear" =>
             /\ buffer_messages = buffer_last.before.messages
             /\ message_timestamps = buffer_last.before.timestamps

\* C13 (as stated): with max_age = T, cleanup at time now resets the slot of a
\* message received at t to EMPTY whenever now >= t + T and leaves it unchanged
\* whenever now < t + T; with max_age unset it changes nothing.
C13_EvictsAtMaxAge ==
    buffer_last.op = "cleanup_stale_messages" =>
       IF max_age.kind = "None"
       THEN buffer_messages = buffer_last.before.messages
       ELSE \A p \in DOMAIN buffer_messages :
               IF buffer_last.at >= message_timestamps[p] + max_age.v
               THEN buffer_messages[p].type = EMPTY
               ELSE buffer_messages[p] = buffer_last.before.messages[p]

\* C13 (amended): with max_age = T, cleanup at time now resets the slot of a
\* message received at t to EMPTY whenever now > t + T and leaves it unchanged
\* whenever now <= t + T, the instant now = t + T included; with max_age unset
\* it changes nothing. The timestamps are never changed.
C13_EvictsPastMaxAge ==
    buffer_last.op = "cleanup_stale_messages" =>
       /\ message_timestamps = buffer_last.before.timestamps
       /\ IF max_age.kind = "None"
          THEN buffer_messages = buffer_last.before.messages
          ELSE \A p \in DOMAIN buffer_messages :
                  IF buffer_last.at > message_timestamps[p] + max_age.v
                  THEN buffer_messages[p].type = EMPTY
                  ELSE buffer_messages[p] = buffer_last.before.messages[p]

\* A cleanup has just evicted the payload of one slot, older than max_age, and
\* kept the payload of another, whose age is exactly max_age.
C13_Witness ==
    /\ buffer_last.op = "cleanup_stale_messages"
    /\ max_age.kind = "float"
    /\ \E p, q \in DOMAIN buffer_messages :
          /\ buffer_last.before.messages[p].type = PAYLOAD
          /\ buffer_last.at > message_timestamps[p] + max_age.v
          /\ buffer_messages[p].type = EMPTY
          /\ buffer_last.before.messages[q].type = PAYLOAD
          /\ buffer_last.at = message_timestamps[q] + max_age.v
          /\ buffer_messages[q].type = PAYLOAD

\* ---- Brain.run, continued ----

\* The futures submitted for neuron n.
Dispatches(n) == {i \in 1..Len(tasks) : tasks[i].neuron = n}

\* C16: an entry unit configured with zero predecessors and no triggers is
\* dispatched exactly once, at seed time, and is never ready afterwards.
C16_EntryUnitFiresOnce ==
    \A n \in graph.is_entrypoint :
       (graph.predecessors[n] = {} /\ graph.triggers[n] = <<>> /\ pc # "seed")
       => /\ Cardinality(Dispatches(n)) = 1
          /\ ready_to_fire(predecessors[n], graph.triggers[n]) = [kind |-> "False"]

\* ---- a Brain under assembly ----

\* C17: both endpoints of every synapse of a Brain are ids of its neurons, a
\* synapse naming an unknown id having been refused by add_synapse.
C17_SynapseEndpointsKnown ==
    \A i \in 1..Len(brain_synapses) :
       /\ InSeq(brain_synapses[i][1], NeuronIds(brain_neurons))
       /\ InSeq(brain_synapses[i][2], NeuronIds(brain_neurons))

\* ---- one Neuron, continued ----

\* Every id the trigger string names is a predecessor whose slot is filled.
Satisfied(t, preds) ==
    /\ t # <<>>
    /\ \A i \in 1..Len(t) : t[i] = "," \/ (t[i] \in DOMAIN preds /\ preds[t[i]] # None)

\* C20: the readiness check returns the first satisfied trigger in declaration
\* order (False when none is satisfied); a unit with no declared trigger is
\* ready exactly when it has predecessor slots and all of them are filled.
C20_FirstSatisfiedTrigger ==
    LET P == neuron_predecessors
        T == neuron_triggers
        r == ready_to_fire(P, T)
        sat == {i \in 1..Len(T) : Satisfied(T[i], P)}
    IN /\ T # <<>> =>
             IF sat = {} THEN r = [kind |-> "False"]
             ELSE r = [kind |-> "str", s |-> T[CHOOSE i \in sat : \A j \in sat : i <= j]]
       /\ T = <<>> =>
             (r.kind = "str" <=> (DOMAIN P # {} /\ \A k \in DOMAIN P : P[k] # None))
       /\ neuron_last.op = "ready_to_fire" => neuron_last.ret = r

\* The readiness check has just returned the first of two different triggers,
\* both satisfied.
C20_Witness ==
    /\ neuron_last.op = "ready_to_fire"
    /\ Len(neuron_triggers) = 2
    /\ neuron_triggers[1] # neuron_triggers[2]
    /\ Satisfied(neuron_triggers[1], neuron_predecessors)
    /\ Satisfied(neuron_triggers[2], neuron_predecessors)
    /\ neuron_last.ret = [kind |-> "str", s |-> neuron_triggers[1]]


\* The ids a trigger string names.
Named(t) == {t[i] : i \in {j \in 1..Len(t) : t[j] # ","}}

\* C21: a firing clears the whole inbox: after fire has run with the context
\* the readiness check returned, every slot that held a non-persistent message
\* is empty, the slots of predecessors outside the context included, and every
\* slot that held a persistent message is unchanged (each predecessor here being
\* named by a trigger of the unit).
C21_FireClearsInbox ==
    LET B == neuron_last.before
    IN (/\ neuron_last.op = "fire"
        /\ ready_to_fire(B.predecessors, B.triggers) = [kind |-> "str", s |-> neuron_last.arg]
        /\ \A k \in DOMAIN B.predecessors :
              \E i \in 1..Len(B.triggers) : k \in Named(B.triggers[i]))
       => \A k \in DOMAIN B.predecessors :
             IF B.predecessors[k].kind = "Message" /\ ~B.predecessors[k].persistant
             THEN neuron_predecessors[k] = None
             ELSE neuron_predecessors[k] = B.predecessors[k]

\* The last call left the predecessors and the triggers as it found them.
UnitUnchanged ==
    /\ neuron_predecessors = neuron_last.before.predecessors
    /\ neuron_triggers = neuron_last.before.triggers

\* C26: starting from a unit with no triggers, whatever methods are called,
\* every id named in every trigger is a key of the predecessors, so the
\* readiness check never looks up a missing predecessor; add_trigger with an
\* id that is no predecessor and remove_trigger of an absent trigger fail with
\* an error, and a failed call leaves the state unchanged.
C26_TriggersNameKeys ==
    LET B == neuron_last.before
    IN /\ \A i \in 1..Len(neuron_triggers) :
             /\ neuron_triggers[i] # <<>>
             /\ Named(neuron_triggers[i]) \subseteq DOMAIN neuron_predecessors
       /\ ready_to_fire(neuron_predecessors, neuron_triggers).kind # "KeyError"
       /\ neuron_last.op = "add_trigger" =>
             IF neuron_last.arg # <<>> /\ Named(neuron_last.arg) \subseteq DOMAIN B.predecessors
             THEN /\ neuron_last.ret = None
                  /\ neuron_triggers = Append(B.triggers, neuron_last.arg)
             ELSE neuron_last.ret = Exception("ValueError")
       /\ neuron_last.op = "remove_trigger" =>
             IF \E i \in 1..Len(B.triggers) : B.triggers[i] = neuron_last.arg
             THEN neuron_last.ret = None
             ELSE neuron_last.ret = Exception("ValueError")
       /\ (neuron_last.op \in {"add_trigger", "remove_trigger"}
           /\ neuron_last.ret.kind = "Exception") => UnitUnchanged

\* remove_predecessor has just taken away a predecessor that a trigger named,
\* and that trigger with it.
C26_Witness ==
    /\ neuron_last.op = "remove_predecessor"
    /\ \E i \in 1..Len(neuron_last.before.triggers) :
          neuron_last.arg[1] \in Named(neuron_last.before.triggers[i])
    /\ Len(neuron_triggers) < Len(neuron_last.before.triggers)
    /\ neuron_triggers # <<>>


\* ---- one Buffer, continued ----

\* C22: after any sequence of receive (from known and unknown senders),
\* cleanup_stale_messages and clear, the keys of the buffer are exactly the
\* predecessor ids given at construction and every key maps to a message; a
\* receive from a sender that is no declared predecessor leaves messages and
\* timestamps unchanged.
C22_KeySetFixed ==
    /\ DOMAIN buffer_messages = buffer_predecessors_ids
    /\ DOMAIN message_timestamps = buffer_predecessors_ids
    /\ \A p \in DOMAIN buffer_messages : buffer_messages[p].type \in MessageType
    /\ (buffer_last.op = "receive" /\ buffer_last.arg \notin buffer_predecessors_ids)
       => /\ buffer_messages = buffer_last.before.messages
          /\ message_timestamps = buffer_last.before.timestamps

\* A buffer that holds a payload has just been handed a message from a sender
\* it was not built on.
C22_Witness ==
    /\ buffer_last.op = "receive"
    /\ buffer_last.arg \in Ids \ buffer_predecessors_ids
    /\ \E p \in DOMAIN buffer_messages : buffer_messages[p].type = PAYLOAD

\* ---- Brain.run on the graph Loop ----

\* C23: during a run the keys of the inbox of each unit are its configured
\* predecessor ids: delivering a result over a synapse adds no key, and a
\* message from an emitter that is no configured predecessor does not make the
\* receiving unit ready.
C23_InboxKeysFixed ==
    \A n \in Ids :
       /\ DOMAIN predecessors[n] = graph.predecessors[n]
       /\ graph.predecessors[n] = {} =>
             ready_to_fire(predecessors[n], graph.triggers[n]) = [kind |-> "False"]

\* ---- Activation.route ----

\* C24: every message of kind EMPTY the default routing produces carries no
\* reply.
C24_EmptyCarriesNoReply ==
    routed.kind = "list" =>
       \A i \in 1..Len(routed.l) : routed.l[i].type = EMPTY => routed.l[i].reply = "None"


\* ---- Brain.run, continued ----

\* The units a synapse leads to from unit e.
Receivers(e) ==
    {graph.synapses[i][2] : i \in {j \in 1..Len(graph.synapses) : graph.synapses[j][1] = e}}

\* The inbox of every receiver of e holds v in the slot of e after the step,
\* and nothing else has changed in any inbox.
SlotsSet(e, v) ==
    \A n \in Ids :
       IF n \in Receivers(e)
       THEN /\ predecessors'[n][e] = v
            /\ \A k \in DOMAIN predecessors[n] \ {e} : predecessors'[n][k] = predecessors[n][k]
       ELSE predecessors'[n] = predecessors[n]

\* C25: when run() reaps a completed dispatch, a Message is yielded and stored
\* in the emitter's slot of every successor; a ResetMessage is not yielded and
\* empties that slot of every successor; an InactiveMessage is neither yielded
\* nor delivered and leaves every inbox unchanged; in the three cases the
\* future leaves the list `futures`.
C25_ResultKindDecides ==
    [][(/\ pc = "reap"
        /\ idx <= Len(snapshot)
        /\ tasks[snapshot[idx]].st = "done"
        /\ idx' = idx + 1)
       => LET t == snapshot[idx]
              result == tasks[t].result
          IN /\ Len(futures') = Len(futures) - 1
             /\ ~InSeq(t, futures')
             /\ CASE result.kind = "Message" ->
                       /\ yielded' = Append(yielded, result)
                       /\ SlotsSet(result.emitter_id, result)
                  [] result.kind = "ResetMessage" ->
                       /\ yielded' = yielded
                       /\ SlotsSet(result.emitter_id, None)
                  [] result.kind = "InactiveMessage" ->
                       /\ yielded' = yielded
                       /\ predecessors' = predecessors
                  [] OTHER -> FALSE]_vars

\* run() has reaped a Message and a ResetMessage, each of a unit with a successor.
C25_Witness ==
    /\ \E t \in Reaped : /\ tasks[t].result.kind = "Message"
                         /\ successors(graph.synapses, tasks[t].neuron) # <<>>
    /\ \E t \in Reaped : /\ tasks[t].result.kind = "ResetMessage"
                         /\ successors(graph.synapses, tasks[t].neuron) # <<>>

====
